---- MODULE Spec2Model ----
(***************************************************************************)
(* Model of the pull-mode event scanner of indexing-sdk                    *)
(* (client/HttpClient.go): NewEventsClient, SubscribeEvents, the scan      *)
(* cycle CycleGetEvents and the two retrying fetchers GetLatestBlockNumber *)
(* and GetEvents with shouldRetry.                                         *)
(*                                                                         *)
(* The scanner goroutine is one process whose position is pc.  The remote  *)
(* service and the consumer of dataChannel / committedChannel are the      *)
(* environment: every transport outcome, every decodable response body and *)
(* every moment at which the consumer receives or acknowledges is a        *)
(* nondeterministic choice.                                                *)
(*                                                                         *)
(* The second half models the streaming client: WSClient                   *)
(* (client/Websocketclient.go: Connect, SendRequest, Close, readPump,      *)
(* writePump) and StreamClient (client/stream_client.go: Start,            *)
(* processMessages, Stop).  Every goroutine is a process with its own      *)
(* position; the server (frames, close codes, transport failures) and the  *)
(* callers of the exported methods are the environment.                    *)
(***************************************************************************)
EXTENDS Integers, Sequences, FiniteSets, Bags, TLC

\* ---------------------------------------------------------------- bounds
\* Number of scan cycles (timer firings) explored.
MaxCycles == 4
\* Number of frames the server sends over the streaming connections.
MaxFrames == 2
\* Number of SendRequest calls made by the callers.
MaxSends == 2
\* Number of connections dialled when Connect is called again.
MaxConnects == 2

\* ------------------------------------------------------ program constants
\* for attempt := 0; attempt < 3; attempt++
MaxAttempts == 3
\* config.BlockSize = 10 when it is 0
DefaultBlockSize == 10
\* config.EventSize = 100 when it is 0
DefaultEventSize == 100

\* ------------------------------------------------------------ input sets
\* Config.BlockSize / Config.EventSize as handed to NewEventsClient: left
\* out (zero, so defaulted) or set.
BlockSizes == {0, 3}
EventSizes == {0, 50}
\* FlowEventsRequest.FromBlock
FromBlocks == {100}
\* application codes a decoded response can carry
Codes == {0, 200, 400, 429, 499, 500, 599, 600}
\* PageResponse.Message / Response.Message
Messages == {"m1", "m2"}
\* Page.Page, Page.Size, Page.Total and len(Page.Data) of a decoded page
Pages == {1, 2}
Sizes == {50, 100}
Totals == {100, 300}
Counts == {50, 100}

VARIABLES
    c,                 \* *EventsClient: [BlockSize, EventSize]
    committedChannel,  \* "nil" (flow control off) or "chan"
    innerReq,          \* *HttpEventsRequest: the cursor
    pc,                \* position of the scanner goroutine
    attempt,           \* loop variable of the running fetcher
    lastErr,           \* lastErr of the running fetcher
    ret,               \* what the last fetcher call returned
    terminalAt,        \* attempt of the running/last call that got a code
                       \* outside the retry allow-list (0: none did)
    latestBlockNumber, \* CycleGetEvents' local (line 168); -1 before it is set
    eventData,         \* the batch built by the cycle (line 186)
    sent,              \* jsonData: the request marshalled by GetEvents
    cycleStart,        \* innerReq when the running cycle started
    startDelivered,    \* Len(delivered) when the running cycle started
    outcome,           \* how the running/last cycle ended
    cycles,            \* number of cycles started
    delivered,         \* what the consumer received from dataChannel, in order
    nAcks,             \* completed receives on committedChannel
    cancelled          \* the subscriber signalled that scanning should stop

\* the scanner (client/HttpClient.go)
scanVars == <<c, committedChannel, innerReq, pc, attempt, lastErr, ret,
              terminalAt, latestBlockNumber, eventData, sent, cycleStart,
              startDelivered, outcome, cycles, delivered, nAcks, cancelled>>

VARIABLES
    conn,          \* WSClient.conn: 0 (nil) or the number of a dialled connection
    isConnected,   \* WSClient.isConnected
    done,          \* WSClient.done: "open" or "closed"
    rlocked,       \* callers holding WSClient.mu.RLock (Lock sections are
                   \* single steps, taken when no reader holds the mutex)
    sockets,       \* the dialled connections, each "open" or "closed" (Close())
    readPumps,     \* the readPump goroutines, one per successful Connect
    writePumps,    \* the writePump goroutines, one per successful Connect
    caller,        \* the goroutines calling the exported methods: where
                   \* each is, and in which method
    returned,      \* the last return of an exported method: method and error
    calls,         \* callback invocations so far: a bag of Call records
    nframes,       \* frames read so far
    nSends,        \* SendRequest calls so far
    wire,          \* number of text messages SendRequest wrote to a connection
    panicked,      \* "" or the run-time panic that ended the process
    owner,         \* who built the WSClient: "user" or "StreamClient" (Start)
    buffer,        \* StreamClient.buffer: the queued messages
    bufferSize,    \* cap(StreamClient.buffer)
    bufferClosed,  \* close(sc.buffer) happened
    ctxDone,       \* sc.cancel() happened
    wsClient,      \* StreamClient.wsClient: "nil" or "set"
    pm,            \* position of the processMessages goroutine
    dispatched     \* the messages processMessages received, in order

\* WSClient (client/Websocketclient.go)
wsVars == <<conn, isConnected, done, rlocked, sockets, readPumps, writePumps,
            caller, returned, calls, nframes, nSends, wire, panicked,
            owner>>

\* StreamClient (client/stream_client.go)
scVars == <<buffer, bufferSize, bufferClosed, ctxDone, wsClient, pm,
            dispatched>>

vars == <<scanVars, wsVars, scVars>>

\* ------------------------------------------------------------ data shapes
Cursor(f, t, p, s) ==
    [FromBlock |-> f, ToBlock |-> t, PageNumber |-> p, PageSize |-> s]

NoCursor == Cursor(0, 0, 0, 0)

\* error values: nil, or the text fmt.Errorf builds
NilErr == [kind |-> "nil", msg |-> ""]
Errorf(kind, msg) == [kind |-> kind, msg |-> msg]

\* *Page of a PageResponse; nil |-> TRUE is an absent "data" member
NilPage == [nil |-> TRUE, Page |-> 0, Size |-> 0, Total |-> 0, Count |-> 0]
PageData ==
    {NilPage} \cup
    [nil : {FALSE}, Page : Pages, Size : Sizes, Total : Totals, Count : Counts]

\* *LatestBlockNumber of a Response; the chain heads tried around toBlock
NilHead == [nil |-> TRUE, LatestBlockNumber |-> 0]
HeadData(to) ==
    {NilHead} \cup
    [nil : {FALSE}, LatestBlockNumber : {h \in {to - 1, to, to + 20} : h >= 0}]

\* what one attempt of a fetcher can end with: a failure to build or send
\* the request or to read the body (NewRequest, Do, ReadAll), an
\* undecodable body, or a decoded response
Failures ==
    [t : {"newreq", "do", "read", "unmarshal"}, Code : {0}, Message : {""}]
Responses ==
    [t : {"resp"}, Code : Codes, Message : Messages]

NilRet ==
    [fn |-> "none", err |-> NilErr, latest |-> 0, page |-> NilPage,
     tries |-> 0, terminal |-> FALSE, message |-> ""]

NilEventData ==
    [nil |-> TRUE, Events |-> 0,
     MetaData |-> [ScanLatestBlockNumber |-> 0,
                   ScanLatestBlockCompleted |-> FALSE]]

\* ---------------------------------------------------------- pure helpers
\* NewEventsClient: a zero BlockSize / EventSize takes the default, every
\* other value is kept as given.
NewEventsClient(config) ==
    [BlockSize |-> IF config.BlockSize = 0 THEN DefaultBlockSize
                   ELSE config.BlockSize,
     EventSize |-> IF config.EventSize = 0 THEN DefaultEventSize
                   ELSE config.EventSize]

\* HttpEventsRequest.Reset
Reset(request, fromBlock, toBlock, pageNumber, pageSize) ==
    [request EXCEPT !.FromBlock = fromBlock, !.ToBlock = toBlock,
                    !.PageNumber = pageNumber, !.PageSize = pageSize]

\* SubscribeEvents: the first cursor
SubscribeEvents(req, cl) ==
    Cursor(req.FromBlock, req.FromBlock + cl.BlockSize, 1, cl.EventSize)

\* shouldRetry with the 4xx client errors retried as well
shouldRetryClientErrors(code) == code >= 400 /\ code < 600

\* shouldRetry: any 5xx, plus the listed codes
shouldRetry(code) ==
    \/ code >= 500 /\ code < 600
    \/ code \in {429, 503, 504}

\* apiResult.Code != 200 && apiResult.Code != 0 is the error test
IsErrorCode(code) == code # 200 /\ code # 0

\* One iteration of a fetcher's retry loop on round-trip outcome o, with the
\* lastErr held so far: what the loop does next and the lastErr it holds.
Attempt(o, prevErr) ==
    CASE o.t = "newreq" ->
           [next |-> "continue",
            lastErr |-> Errorf("create http request failed", "")]
      [] o.t = "do" ->
           [next |-> "continue", lastErr |-> Errorf("http request failed", "")]
      [] o.t = "read" ->
           [next |-> "continue",
            lastErr |-> Errorf("read response body failed", "")]
      [] o.t = "unmarshal" ->
           [next |-> "continue",
            lastErr |-> Errorf("unmarshal response body failed", "")]
      [] OTHER ->
           IF IsErrorCode(o.Code)
           THEN [next |-> IF shouldRetry(o.Code) THEN "continue" ELSE "return",
                 lastErr |-> Errorf("error getting events", o.Message)]
           ELSE [next |-> "success", lastErr |-> prevErr]

\* the error a fetcher returns once the loop has run out of attempts
ExhaustedErr(err) == err

\* the error a fetcher returns on a code that is not to be retried
TerminalErr(err) == err

\* an error path that moves on to the next page
CursorOnErrorSkipsPage(r) == [r EXCEPT !.PageNumber = @ + 1]

\* CycleGetEvents: a failed head query or event fetch returns from the
\* cycle with the cursor as it is
CursorOnError(r) == r

\* A round trip whose decoded response carries a non-success code that is
\* not on the retry allow-list of the design (any 5xx, 429, 503, 504).
NotRetried(o) ==
    /\ o.t = "resp"
    /\ o.Code \notin {0, 200}
    /\ o.Code \notin (500..599) \cup {429, 503, 504}

\* the head test one block too lenient
HeadBehindOffByOne(toBlock, latest) == toBlock > latest + 1

\* CycleGetEvents: the window is not yet mined
HeadBehind(toBlock, latest) == toBlock > latest

\* CycleGetEvents: MetaData.ScanLatestBlockNumber of the batch
ScanLatestBlockNumber(r, cl) == r.FromBlock + cl.BlockSize

\* the completion test without the page*size == total clause
WindowExhaustedCountOnly(page, cl) ==
    \/ page.nil
    \/ page.Count < cl.EventSize

\* CycleGetEvents: the fetched page exhausts the window
WindowExhausted(page, cl) ==
    \/ page.nil
    \/ page.Count < cl.EventSize
    \/ page.Page * page.Size = page.Total

\* a window shift that stays on the window just finished
NextWindowSame(r, cl) == Reset(r, r.FromBlock, r.ToBlock, 1, cl.EventSize)

\* CycleGetEvents: the cursor after an exhausted window
NextWindow(r, cl) == Reset(r, r.ToBlock + 1, r.ToBlock + 11, 1, cl.EventSize)

\* a page turn that forgets the increment
NextPageStuck(r, cl) ==
    Reset(r, r.FromBlock, r.ToBlock, r.PageNumber, cl.EventSize)

\* CycleGetEvents: the cursor after a page that leaves more in the window
NextPage(r, cl) ==
    Reset(r, r.FromBlock, r.ToBlock, r.PageNumber + 1, cl.EventSize)

\* ------------------------------------------- streaming client: data shapes
\* goroutines that call Connect, SendRequest, Close, Start, Stop
Callers == {"u1", "u2"}
\* StreamConfig.BufferSize
BufferSizes == {0, 1}
\* close codes a *websocket.CloseError can carry
CloseCodes == {"CloseNormalClosure", "CloseGoingAway", "CloseAbnormalClosure"}

\* A frame as readPump sees it: ok says whether json.Unmarshal into WSMessage
\* succeeds, dataOk whether msg.Data decodes into the events of its tag.
NilMessage == [ok |-> FALSE, Type |-> "", Message |-> "", dataOk |-> FALSE]
Frames ==
    {NilMessage}
    \cup [ok : {TRUE}, Type : {"events", "new_event", "end"}, Message : {""},
          dataOk : BOOLEAN]
    \cup [ok : {TRUE}, Type : {"error"}, Message : Messages, dataOk : {FALSE}]
    \cup [ok : {TRUE}, Type : {"heartbeat"}, Message : {""}, dataOk : {FALSE}]

\* errors conn.ReadMessage returns while the connection is open: a close
\* frame or a lost peer (*websocket.CloseError), or another transport error
ReadErrs == {Errorf("close", code) : code \in CloseCodes}
            \cup {Errorf("net", "read failed")}

\* one callback invocation: which callback, from which goroutine, with what
Call(fn, by, err) == [fn |-> fn, by |-> by, err |-> err]

\* the callbacks invoked so far and the call cl
Invoke(cl) == calls (+) SetToBag({cl})
\* how often the call cl was made
Invoked(cl) == CopiesIn(cl, calls)

\* a caller outside every method
Idle == [pc |-> "idle", op |-> ""]
\* where a caller goes next: on inside the method op (At), or out of it
\* with the error it returns (Returned)
At(pos, op) == [pc |-> pos, op |-> op, ret |-> NilErr]
Returned(op, err) == [pc |-> "idle", op |-> op, ret |-> err]
\* the caller u goes to nxt
Goto(u, nxt) ==
    IF nxt.pc = "idle"
    THEN /\ caller' = [caller EXCEPT ![u] = Idle]
         /\ returned' = [op |-> nxt.op, ret |-> nxt.ret]
    ELSE /\ caller' = [caller EXCEPT ![u] = [pc |-> nxt.pc, op |-> nxt.op]]
         /\ UNCHANGED returned

\* a readPump goroutine: conn is its local copy of c.conn, msg the decoded
\* frame, err the read error that ended its loop
NewReadPump == [pc |-> "select", conn |-> 0, msg |-> NilMessage, err |-> NilErr]
\* a writePump goroutine
NewWritePump == [pc |-> "select", conn |-> 0]

\* NewWSClient: no connection, done open, nothing running
NewWSClient(by) ==
    /\ conn = 0
    /\ isConnected = FALSE
    /\ done = "open"
    /\ rlocked = {}
    /\ sockets = << >>
    /\ readPumps = << >>
    /\ writePumps = << >>
    /\ caller = [u \in Callers |-> Idle]
    /\ returned = [op |-> "", ret |-> NilErr]
    /\ calls = EmptyBag
    /\ nframes = 0
    /\ nSends = 0
    /\ wire = 0
    /\ panicked = ""
    /\ owner = by

\* NewStreamClient: an open buffer of config.BufferSize, a live context
NewStreamClient(size) ==
    /\ buffer = << >>
    /\ bufferSize = size
    /\ bufferClosed = FALSE
    /\ ctxDone = FALSE
    /\ wsClient = "nil"
    /\ pm = "none"
    /\ dispatched = << >>

\* ------------------------------------------------------------------ Init
\* Config values NewEventsClient is handed in the scanning runs, and the
\* wider set with values below zero, which the Config fields (int) admit
Configs == [BlockSize : BlockSizes, EventSize : EventSizes]
AnyConfigs == [BlockSize : BlockSizes \cup {-5}, EventSize : EventSizes \cup {-1}]

\* the scanner right after NewEventsClient(config) and SubscribeEvents
Subscribed(config, from, cc) ==
    /\ c = NewEventsClient(config)
    /\ committedChannel = cc
    /\ innerReq = SubscribeEvents([FromBlock |-> from], c)
    /\ pc = "timer"
    /\ attempt = 0
    /\ lastErr = NilErr
    /\ ret = NilRet
    /\ terminalAt = 0
    /\ latestBlockNumber = -1
    /\ eventData = NilEventData
    /\ sent = NoCursor
    /\ cycleStart = NoCursor
    /\ startDelivered = 0
    /\ outcome = "none"
    /\ cycles = 0
    /\ delivered = << >>
    /\ nAcks = 0
    /\ cancelled = FALSE

Init ==
    /\ \E config \in Configs, from \in FromBlocks, cc \in {"nil", "chan"} :
          Subscribed(config, from, cc)
    /\ NewWSClient("user")
    /\ NewStreamClient(0)

\* the same scanner for every Config value, those below zero included
InitAnyConfig ==
    /\ \E config \in AnyConfigs, from \in FromBlocks, cc \in {"nil", "chan"} :
          Subscribed(config, from, cc)
    /\ NewWSClient("user")
    /\ NewStreamClient(0)

\* --------------------------------------------------------------- actions
\* SubscribeEvents' goroutine: the timer fires and CycleGetEvents starts by
\* calling GetLatestBlockNumber.
TimerFire ==
    /\ pc = "timer"
    /\ cycles < MaxCycles
    /\ cycles' = cycles + 1
    /\ cycleStart' = innerReq
    /\ startDelivered' = Len(delivered)
    /\ outcome' = "running"
    /\ pc' = "GetLatestBlockNumber"
    /\ attempt' = 0
    /\ lastErr' = NilErr
    /\ ret' = NilRet
    /\ terminalAt' = 0
    /\ latestBlockNumber' = -1
    /\ eventData' = NilEventData
    /\ sent' = NoCursor
    /\ UNCHANGED <<cancelled, wsVars, scVars>>
    /\ UNCHANGED <<c, committedChannel, innerReq, delivered, nAcks>>

\* The loop's step after iteration result a of the fetcher fn, whose decoded
\* payload (used on success only) is given by latest / page.  On return the
\* fetcher's locals (attempt, lastErr) are gone; ret keeps what the call
\* returned, how many attempts it made (tries), whether it returned from
\* inside the loop on a code not to be retried (terminal) and the message
\* of the last round trip's response.
FetcherStep(fn, a, o, latest, page, retpc) ==
    LET tries == attempt + 1 IN
    CASE a.next = "success" ->
           /\ ret' = [fn |-> fn, err |-> NilErr, latest |-> latest,
                      page |-> page, tries |-> tries, terminal |-> FALSE,
                      message |-> ""]
           /\ pc' = retpc
           /\ attempt' = 0
           /\ lastErr' = NilErr
      [] a.next = "return" ->
           /\ ret' = [fn |-> fn, err |-> TerminalErr(a.lastErr), latest |-> 0,
                      page |-> NilPage, tries |-> tries, terminal |-> TRUE,
                      message |-> o.Message]
           /\ pc' = retpc
           /\ attempt' = 0
           /\ lastErr' = NilErr
      [] OTHER ->
           IF attempt + 1 < MaxAttempts
           THEN /\ attempt' = attempt + 1
                /\ lastErr' = a.lastErr
                /\ UNCHANGED <<ret, pc>>
           ELSE /\ ret' = [fn |-> fn, err |-> ExhaustedErr(a.lastErr),
                           latest |-> 0, page |-> NilPage, tries |-> tries,
                           terminal |-> FALSE, message |-> o.Message]
                /\ pc' = retpc
                /\ attempt' = 0
                /\ lastErr' = NilErr

\* GetLatestBlockNumber: one iteration of the retry loop.  A success-coded
\* response without data makes line 261 dereference a nil pointer.
GetLatestBlockNumber ==
    /\ pc = "GetLatestBlockNumber"
    /\ attempt < MaxAttempts
    /\ \E o \in Failures \cup Responses, d \in HeadData(innerReq.ToBlock) :
        LET a == Attempt(o, lastErr) IN
        /\ a.next # "success" => d = NilHead
        /\ terminalAt' = IF NotRetried(o) THEN attempt + 1 ELSE terminalAt
        /\ IF a.next = "success" /\ d.nil
           THEN /\ pc' = "panic"
                /\ outcome' = "panic in GetLatestBlockNumber"
                /\ attempt' = 0
                /\ lastErr' = NilErr
                /\ UNCHANGED ret
           ELSE /\ FetcherStep("GetLatestBlockNumber", a, o,
                               d.LatestBlockNumber, NilPage, "headReturned")
                /\ UNCHANGED outcome
    /\ UNCHANGED <<cancelled, wsVars, scVars>>
    /\ UNCHANGED <<c, committedChannel, innerReq, latestBlockNumber, eventData,
                   sent, cycleStart, startDelivered, cycles, delivered, nAcks>>

\* CycleGetEvents after GetLatestBlockNumber returned: give up the cycle on
\* an error or on a head behind toBlock, else marshal the cursor and call
\* GetEvents.  (Heads are below 2^63, where int(latestBlockNumber) keeps
\* the value.)
CycleAfterHead ==
    /\ pc = "headReturned"
    /\ IF ret.err # NilErr
       THEN /\ outcome' = "headFailed"
            /\ pc' = "timer"
            /\ innerReq' = CursorOnError(innerReq)
            /\ UNCHANGED <<latestBlockNumber, sent, terminalAt>>
       ELSE /\ latestBlockNumber' = ret.latest
            /\ UNCHANGED innerReq
            /\ IF HeadBehind(innerReq.ToBlock, ret.latest)
               THEN /\ outcome' = "skipped"
                    /\ pc' = "timer"
                    /\ UNCHANGED <<sent, terminalAt>>
               ELSE /\ sent' = innerReq
                    /\ terminalAt' = 0
                    /\ pc' = "GetEvents"
                    /\ UNCHANGED outcome
    /\ UNCHANGED <<cancelled, wsVars, scVars>>
    /\ UNCHANGED <<c, committedChannel, attempt, lastErr, ret, eventData,
                   cycleStart, startDelivered, cycles, delivered, nAcks>>

\* GetEvents: one iteration of the retry loop; success returns &apiResult
\* whatever its Data.  (json.Marshal of the request, before the loop, cannot
\* fail for this struct.)
GetEvents ==
    /\ pc = "GetEvents"
    /\ attempt < MaxAttempts
    /\ \E o \in Failures \cup Responses, d \in PageData :
        LET a == Attempt(o, lastErr) IN
        /\ a.next # "success" => d = NilPage
        /\ terminalAt' = IF NotRetried(o) THEN attempt + 1 ELSE terminalAt
        /\ FetcherStep("GetEvents", a, o, 0, d, "eventsReturned")
    /\ UNCHANGED <<cancelled, wsVars, scVars>>
    /\ UNCHANGED <<c, committedChannel, innerReq, latestBlockNumber, eventData,
                   sent, cycleStart, startDelivered, outcome, cycles, delivered,
                   nAcks>>

\* CycleGetEvents after GetEvents returned: give up the cycle on an error;
\* else build the batch (line 187 dereferences response.Data, nil or not),
\* decide completion and move the cursor, and go on to the send.
CycleBuild ==
    /\ pc = "eventsReturned"
    /\ IF ret.err # NilErr
       THEN /\ outcome' = "fetchFailed"
            /\ pc' = "timer"
            /\ innerReq' = CursorOnError(innerReq)
            /\ UNCHANGED eventData
       ELSE IF ret.page.nil
       THEN /\ outcome' = "panic in CycleGetEvents"
            /\ pc' = "panic"
            /\ UNCHANGED <<eventData, innerReq>>
       ELSE LET exhausted == WindowExhausted(ret.page, c) IN
            /\ eventData' =
                 [nil |-> FALSE, Events |-> ret.page.Count,
                  MetaData |->
                    [ScanLatestBlockNumber |-> ScanLatestBlockNumber(innerReq, c),
                     ScanLatestBlockCompleted |-> exhausted]]
            /\ innerReq' = IF exhausted THEN NextWindow(innerReq, c)
                           ELSE NextPage(innerReq, c)
            /\ outcome' = IF exhausted THEN "exhausted" ELSE "paged"
            /\ pc' = "send"
    /\ UNCHANGED <<cancelled, wsVars, scVars>>
    /\ UNCHANGED <<c, committedChannel, attempt, lastErr, ret, terminalAt,
                   latestBlockNumber, sent, cycleStart, startDelivered, cycles,
                   delivered, nAcks>>

\* a cycle that returns after the send whether or not a commit is expected
AfterSendNoWait(cc) == "timer"

\* what CycleGetEvents does once the batch is handed over: wait for the
\* commit when a committedChannel was given, else return
AfterSend(cc) == IF cc # "nil" THEN "wait" ELSE "timer"

\* dataChannel <- eventData completes: the consumer receives the batch.
\* The log keeps the request the batch was fetched with and its MetaData.
Deliver ==
    /\ pc = "send"
    /\ delivered' = Append(delivered, [req |-> sent,
                                       MetaData |-> eventData.MetaData])
    /\ pc' = AfterSend(committedChannel)
    /\ UNCHANGED <<cancelled, wsVars, scVars>>
    /\ UNCHANGED <<c, committedChannel, innerReq, attempt, lastErr, ret,
                   terminalAt, latestBlockNumber, eventData, sent, cycleStart,
                   startDelivered, outcome, cycles, nAcks>>

\* <-committedChannel completes: the consumer acknowledged.
Commit ==
    /\ pc = "wait"
    /\ nAcks' = nAcks + 1
    /\ pc' = "timer"
    /\ UNCHANGED <<cancelled, wsVars, scVars>>
    /\ UNCHANGED <<c, committedChannel, innerReq, attempt, lastErr, ret,
                   terminalAt, latestBlockNumber, eventData, sent, cycleStart,
                   startDelivered, outcome, cycles, delivered>>

Next ==
    \/ TimerFire
    \/ GetLatestBlockNumber
    \/ CycleAfterHead
    \/ GetEvents
    \/ CycleBuild
    \/ Deliver
    \/ Commit

Spec == Init /\ [][Next]_vars

\* The scanner under every Config value.
SpecAnyConfig == InitAnyConfig /\ [][Next]_vars

\* The subscriber signals that scanning should stop.  SubscribeEvents takes
\* no context or stop channel and the goroutine's select has the timer case
\* only, so the signal is a flag of the environment that no action reads.
Cancel ==
    /\ ~cancelled
    /\ cancelled' = TRUE
    /\ UNCHANGED <<c, committedChannel, innerReq, pc, attempt, lastErr, ret,
                   terminalAt, latestBlockNumber, eventData, sent, cycleStart,
                   startDelivered, outcome, cycles, delivered, nAcks>>
    /\ UNCHANGED <<wsVars, scVars>>

NextCancel ==
    \/ Next
    \/ Cancel

\* The scanner with a subscriber that may signal cancellation at any moment.
SpecCancel == Init /\ [][NextCancel]_vars

\* ================================================ the streaming connection
\* SendRequest's guard (line 97)
NotConnectedNever(ic, cn) == FALSE

NotConnected(ic, cn) == ~ic \/ cn = 0

\* websocket.IsUnexpectedCloseError(err, expectedCodes...): a close error
\* whose code is none of the expected ones
IsUnexpectedCloseError(err, expectedCodes) ==
    /\ err.kind = "close"
    /\ err.msg \notin expectedCodes

\* the codes readPump passes as expected (line 163)
ExpectedCodes == {"CloseGoingAway", "CloseAbnormalClosure"}

\* a Close() that leaves the connection open
ConnCloseLeavesOpen(socks, cn) == socks

\* conn.Close(): the connection cn is closed on this side
ConnClose(socks, cn) == [socks EXCEPT ![cn] = "closed"]

\* a deferred teardown that forgets c.conn = nil
ReleasedKeepsHandle(cn) == cn

\* c.conn = nil (lines 119, 140)
Released(cn) == 0

\* ------------------------------------------------ the exported methods
\* Connect (lines 68-90): dial; on success install the connection under the
\* lock and start one readPump and one writePump.  No field of the client
\* is read before.
ConnectCall(u, connected, failed) ==
    /\ panicked = ""
    /\ caller[u].pc = "idle"
    /\ \E dialed \in BOOLEAN :
        IF dialed
        THEN /\ rlocked = {}
             /\ sockets' = Append(sockets, "open")
             /\ conn' = Len(sockets) + 1
             /\ isConnected' = TRUE
             /\ readPumps' = Append(readPumps, NewReadPump)
             /\ writePumps' = Append(writePumps, NewWritePump)
             /\ Goto(u, connected)
             /\ wsClient' = IF owner = "user" THEN wsClient ELSE "set"
        ELSE /\ Goto(u, failed)
             /\ UNCHANGED <<sockets, conn, isConnected, readPumps, writePumps,
                            wsClient>>
    /\ UNCHANGED <<done, rlocked, calls, nframes, nSends, wire, panicked, owner>>
    /\ UNCHANGED <<scanVars, buffer, bufferSize, bufferClosed, ctxDone, pm,
                   dispatched>>

\* what Connect returns
ConnectErr == Errorf("connect to websocket failed", "")

\* Connect on a client that was never connected nor closed
Connect ==
    \E u \in Callers :
        /\ owner = "user"
        /\ Len(sockets) = 0
        /\ done = "open"
        /\ ConnectCall(u, Returned("Connect", NilErr),
                       Returned("Connect", ConnectErr))

\* Connect on a client that is, or was, connected or closed
ConnectAgain ==
    \E u \in Callers :
        /\ owner = "user"
        /\ Len(sockets) > 0 \/ done = "closed"
        /\ Len(sockets) < MaxConnects
        /\ ConnectCall(u, Returned("Connect", NilErr),
                       Returned("Connect", ConnectErr))

\* SendRequest up to the write (lines 93-105): RLock, the guard, Marshal
\* (which cannot fail for WSRequest).  The deferred RUnlock runs at once on
\* the error return; otherwise the RLock is held across WriteMessage.
SendRequestCall(u, op) ==
    /\ panicked = ""
    /\ nSends < MaxSends
    /\ nSends' = nSends + 1
    /\ IF NotConnected(isConnected, conn)
       THEN /\ Goto(u, Returned(op, Errorf("websocket not connected", "")))
            /\ UNCHANGED <<rlocked, panicked>>
       ELSE IF conn = 0
       THEN /\ panicked' = "nil pointer dereference in SendRequest"
            /\ Goto(u, At("panic", op))
            /\ UNCHANGED rlocked
       ELSE /\ Goto(u, At("WriteMessage", op))
            /\ rlocked' = rlocked \cup {u}
            /\ UNCHANGED panicked
    /\ UNCHANGED <<conn, isConnected, done, sockets, readPumps, writePumps,
                   calls, nframes, wire, owner>>
    /\ UNCHANGED <<scanVars, scVars>>

SendRequest ==
    \E u \in Callers :
        /\ owner = "user"
        /\ caller[u].pc = "idle"
        /\ SendRequestCall(u, "SendRequest")

\* SendRequest's c.conn.WriteMessage returns (line 106) and the deferred
\* RUnlock runs.  A write on a connection closed on this side fails.  When
\* Start made the call (stream_client.go lines 66-73) a success is followed
\* by go sc.processMessages(config); an error ends Start without it.
SendRequestWrite ==
    \E u \in Callers, ok \in BOOLEAN :
        /\ panicked = ""
        /\ caller[u].pc = "WriteMessage"
        /\ ok => sockets[conn] = "open"
        /\ wire' = IF ok THEN wire + 1 ELSE wire
        /\ Goto(u, Returned(caller[u].op,
                            IF ok THEN NilErr ELSE Errorf("net", "write failed")))
        /\ rlocked' = rlocked \ {u}
        /\ pm' = IF ok /\ caller[u].op = "Start" THEN "select" ELSE pm
        /\ UNCHANGED <<conn, isConnected, done, sockets, readPumps, writePumps,
                       calls, nframes, nSends, panicked, owner>>
        /\ UNCHANGED <<scanVars, buffer, bufferSize, bufferClosed, ctxDone,
                       wsClient, dispatched>>

\* Close, its first statement (line 111): close(c.done), which panics on a
\* channel that is closed already.
CloseCall(u, op) ==
    /\ panicked = ""
    /\ IF done = "closed"
       THEN /\ panicked' = "close of closed channel"
            /\ Goto(u, At("panic", op))
            /\ UNCHANGED done
       ELSE /\ done' = "closed"
            /\ Goto(u, At("Lock", op))
            /\ UNCHANGED panicked
    /\ UNCHANGED <<conn, isConnected, rlocked, sockets, readPumps, writePumps,
                   calls, nframes, nSends, wire, owner>>
    /\ UNCHANGED <<scanVars, scVars>>

\* the first Close of a client
Close ==
    \E u \in Callers :
        /\ owner = "user"
        /\ caller[u].pc = "idle"
        /\ done = "open"
        /\ CloseCall(u, "Close")

\* a Close of a client that was closed before
CloseAgain ==
    \E u \in Callers :
        /\ owner = "user"
        /\ caller[u].pc = "idle"
        /\ done = "closed"
        /\ CloseCall(u, "Close")

\* where a caller is once Close returned err: back at its own code, or in
\* Stop, which drops the error and goes on to close(sc.buffer)
AfterClose(op, err) ==
    IF op = "Stop"
    THEN At("closeBuffer", "Stop")
    ELSE Returned(op, err)

\* Close under the lock (lines 113-122): close and release the connection
\* if there is one; conn.Close() may report an error.
CloseLocked ==
    \E u \in Callers :
        /\ panicked = ""
        /\ caller[u].pc = "Lock"
        /\ rlocked = {}
        /\ IF conn # 0
           THEN /\ sockets' = ConnClose(sockets, conn)
                /\ isConnected' = FALSE
                /\ conn' = Released(conn)
                /\ \E err \in {NilErr, Errorf("net", "close failed")} :
                     Goto(u, AfterClose(caller[u].op, err))
           ELSE /\ Goto(u, AfterClose(caller[u].op, NilErr))
                /\ UNCHANGED <<sockets, isConnected, conn>>
        /\ UNCHANGED <<done, rlocked, readPumps, writePumps, calls, nframes,
                       nSends, wire, panicked, owner>>
        /\ UNCHANGED <<scanVars, scVars>>

\* ------------------------------------------------------------ readPump
\* The top of the loop (lines 149-159): return when done is closed; else
\* (default) copy c.conn under RLock and return when it is nil.
ReadPumpSelect ==
    \E i \in DOMAIN readPumps :
        LET p == readPumps[i] IN
        /\ panicked = ""
        /\ p.pc = "select"
        /\ readPumps' = [readPumps EXCEPT ![i] =
             IF done = "closed"
             THEN [p EXCEPT !.pc = "defer"]
             ELSE IF conn = 0
             THEN [p EXCEPT !.pc = "defer"]
             ELSE [p EXCEPT !.pc = "ReadMessage", !.conn = conn]]
        /\ UNCHANGED <<conn, isConnected, done, rlocked, sockets, writePumps,
                       caller, returned, calls, nframes, nSends, wire, panicked,
                       owner>>
        /\ UNCHANGED <<scanVars, scVars>>

\* a readPump that returns on a frame it cannot decode
ParseFailedReturns(p) == [p EXCEPT !.pc = "defer"]

\* readPump after json.Unmarshal failed and the error was reported (lines
\* 173-178): continue, round the loop
ParseFailed(p) == [p EXCEPT !.pc = "select"]

\* conn.ReadMessage returned err (lines 162-169): report it when it is an
\* unexpected close error, and return.
ReadFailed(i, err) ==
    /\ readPumps' = [readPumps EXCEPT ![i] =
         [readPumps[i] EXCEPT !.pc = "defer", !.err = err]]
    /\ calls' = IF IsUnexpectedCloseError(err, ExpectedCodes)
                THEN Invoke(Call("onError", "readPump", err))
                ELSE calls

\* conn.ReadMessage returns (lines 161-178).  On a connection closed on
\* this side it fails with a transport error; on an open one the server
\* decides: a read error, or a frame, which json.Unmarshal decodes or not.
ReadPumpRead ==
    \E i \in DOMAIN readPumps :
        LET p == readPumps[i] IN
        /\ panicked = ""
        /\ p.pc = "ReadMessage"
        /\ \/ /\ sockets[p.conn] = "closed"
              /\ ReadFailed(i, Errorf("net", "use of closed network connection"))
              /\ UNCHANGED nframes
           \/ /\ sockets[p.conn] = "open"
              /\ \E err \in ReadErrs : ReadFailed(i, err)
              /\ UNCHANGED nframes
           \/ /\ sockets[p.conn] = "open"
              /\ nframes < MaxFrames
              /\ nframes' = nframes + 1
              /\ \E f \in Frames :
                   IF f.ok
                   THEN /\ readPumps' = [readPumps EXCEPT ![i] =
                             [p EXCEPT !.pc = "onMessage", !.msg = f]]
                        /\ UNCHANGED calls
                   ELSE /\ readPumps' = [readPumps EXCEPT ![i] = ParseFailed(p)]
                        /\ calls' = Invoke(Call("onError", "readPump",
                                            Errorf("parse message failed", "")))
        /\ UNCHANGED <<conn, isConnected, done, rlocked, sockets, writePumps,
                       caller, returned, nSends, wire, panicked, owner>>
        /\ UNCHANGED <<scanVars, scVars>>

\* c.onMessage(&wsMsg) (line 181).  A user's callback returns.  The one
\* Start installs is sc.buffer <- msg (stream_client.go line 48): it panics
\* on a closed buffer, completes when the buffer has room, and else waits
\* for processMessages to receive.
ReadPumpOnMessage ==
    \E i \in DOMAIN readPumps :
        LET p == readPumps[i]
            back == [readPumps EXCEPT ![i] =
                       [p EXCEPT !.pc = "select", !.msg = NilMessage]] IN
        /\ panicked = ""
        /\ p.pc = "onMessage"
        /\ IF owner = "user"
           THEN /\ calls' = Invoke(Call("onMessage", "readPump", NilErr))
                /\ readPumps' = back
                /\ UNCHANGED <<buffer, panicked>>
           ELSE IF bufferClosed
           THEN /\ panicked' = "send on closed channel"
                /\ UNCHANGED <<buffer, readPumps, calls>>
           ELSE /\ Len(buffer) < bufferSize
                /\ buffer' = Append(buffer, p.msg)
                /\ readPumps' = back
                /\ UNCHANGED <<calls, panicked>>
        /\ UNCHANGED <<conn, isConnected, done, rlocked, sockets, writePumps,
                       caller, returned, nframes, nSends, wire, owner>>
        /\ UNCHANGED <<scanVars, bufferSize, bufferClosed, ctxDone, wsClient,
                       pm, dispatched>>

\* The deferred function (lines 134-146): under the lock close whatever
\* c.conn is now and release it; then call onClose.
ReadPumpDefer ==
    \E i \in DOMAIN readPumps :
        /\ panicked = ""
        /\ readPumps[i].pc = "defer"
        /\ rlocked = {}
        /\ sockets' = IF conn # 0 THEN ConnClose(sockets, conn) ELSE sockets
        /\ isConnected' = FALSE
        /\ conn' = Released(conn)
        /\ calls' = Invoke(Call("onClose", "readPump", NilErr))
        /\ readPumps' = [readPumps EXCEPT ![i] =
             [readPumps[i] EXCEPT !.pc = "exited"]]
        /\ UNCHANGED <<done, rlocked, writePumps, caller, returned, nframes,
                       nSends, wire, panicked, owner>>
        /\ UNCHANGED <<scanVars, scVars>>

\* ----------------------------------------------------------- writePump
\* The select (lines 193-203): return when done is closed; on a tick copy
\* c.conn under RLock and return when it is nil.  With both ready either
\* case may run.
WritePumpSelect ==
    \E i \in DOMAIN writePumps :
        LET w == writePumps[i] IN
        /\ panicked = ""
        /\ w.pc = "select"
        /\ \/ /\ done = "closed"
              /\ writePumps' = [writePumps EXCEPT ![i] =
                   [w EXCEPT !.pc = "exited"]]
           \/ writePumps' = [writePumps EXCEPT ![i] =
                IF conn = 0
                THEN [w EXCEPT !.pc = "exited"]
                ELSE [w EXCEPT !.pc = "WriteMessage", !.conn = conn]]
        /\ UNCHANGED <<conn, isConnected, done, rlocked, sockets, readPumps,
                       caller, returned, calls, nframes, nSends, wire, panicked,
                       owner>>
        /\ UNCHANGED <<scanVars, scVars>>

\* The ping (lines 206-211), written outside the lock: on an error report
\* it and return.  A write on a connection closed on this side fails.
WritePumpPing ==
    \E i \in DOMAIN writePumps, ok \in BOOLEAN :
        LET w == writePumps[i] IN
        /\ panicked = ""
        /\ w.pc = "WriteMessage"
        /\ ok => sockets[w.conn] = "open"
        /\ IF ok
           THEN /\ writePumps' = [writePumps EXCEPT ![i] =
                     [w EXCEPT !.pc = "select"]]
                /\ UNCHANGED calls
           ELSE /\ writePumps' = [writePumps EXCEPT ![i] =
                     [w EXCEPT !.pc = "exited"]]
                /\ calls' = Invoke(Call("onError", "writePump",
                                      Errorf("net", "write failed")))
        /\ UNCHANGED <<conn, isConnected, done, rlocked, sockets, readPumps,
                       caller, returned, nframes, nSends, wire, panicked, owner>>
        /\ UNCHANGED <<scanVars, scVars>>

\* ------------------------------------------------------ specifications
\* the scanner is not in use while the streaming client runs
ScannerIdle ==
    \E from \in FromBlocks :
        Subscribed([BlockSize |-> 0, EventSize |-> 0], from, "nil")

\* a WSClient built by its user with NewWSClient
WsInit ==
    /\ ScannerIdle
    /\ NewWSClient("user")
    /\ NewStreamClient(0)

\* A WSClient whose callers connect it once and close it once.
WsNext ==
    \/ Connect
    \/ SendRequest
    \/ SendRequestWrite
    \/ Close
    \/ CloseLocked
    \/ ReadPumpSelect
    \/ ReadPumpRead
    \/ ReadPumpOnMessage
    \/ ReadPumpDefer
    \/ WritePumpSelect
    \/ WritePumpPing

WsSpec == WsInit /\ [][WsNext]_vars

\* The same client with callers that also call Close on a closed client.
WsCloseAgainNext ==
    \/ WsNext
    \/ CloseAgain

WsCloseAgainSpec == WsInit /\ [][WsCloseAgainNext]_vars

\* A client whose callers call Connect in any state (and neither send nor
\* close).
WsConnectAgainNext ==
    \/ Connect
    \/ ConnectAgain
    \/ ReadPumpSelect
    \/ ReadPumpRead
    \/ ReadPumpOnMessage
    \/ ReadPumpDefer
    \/ WritePumpSelect
    \/ WritePumpPing

WsConnectAgainSpec == WsInit /\ [][WsConnectAgainNext]_vars

\* conn.ReadMessage returns because the connection was closed on this side
ReadPumpReadClosed ==
    /\ ReadPumpRead
    /\ \E i \in DOMAIN readPumps :
         /\ readPumps[i].pc = "ReadMessage"
         /\ sockets[readPumps[i].conn] = "closed"

\* The goroutines keep running: a ready select, a deferred function, a
\* callback and a Lock section are executed, the ticker (every pingPeriod)
\* keeps firing, and a write or a read on a connection closed on this side
\* returns.  What the server sends, and when, stays its choice, as do the
\* callers' calls.
WsFairSpec ==
    /\ WsSpec
    /\ WF_vars(ReadPumpSelect)
    /\ WF_vars(ReadPumpReadClosed)
    /\ WF_vars(ReadPumpOnMessage)
    /\ WF_vars(ReadPumpDefer)
    /\ WF_vars(WritePumpSelect)
    /\ WF_vars(WritePumpPing)
    /\ WF_vars(CloseLocked)
    /\ WF_vars(SendRequestWrite)

\* ====================================================== the StreamClient
\* a dispatcher that goes on after end
AfterTagNeverStops(tag) == "select"

\* processMessages after the switch on msg.Type (lines 83-118): "end"
\* returns, every other tag goes round the loop
AfterTag(tag) == IF tag = "end" THEN "exited" ELSE "select"

\* a switch that invokes no callback
DispatchNothing(msg) == calls

\* the callbacks invoked by the switch on msg.Type (lines 83-118): OnEvents
\* for events / new_event whose data decodes and OnError when it does not,
\* OnError with the message's text for error, nothing for end and for any
\* other tag
Dispatch(msg) ==
    CASE msg.Type = "events" ->
           IF msg.dataOk
           THEN Invoke(Call("OnEvents", "processMessages", NilErr))
           ELSE Invoke(Call("onError", "processMessages",
                            Errorf("parse events failed", "")))
      [] msg.Type = "new_event" ->
           IF msg.dataOk
           THEN Invoke(Call("OnEvents", "processMessages", NilErr))
           ELSE Invoke(Call("onError", "processMessages",
                            Errorf("parse new event failed", "")))
      [] msg.Type = "error" ->
           Invoke(Call("onError", "processMessages",
                       Errorf("server error", msg.Message)))
      [] OTHER -> calls

\* Start up to the initial request (lines 43-63): build the WSClient with
\* sc.buffer <- msg as OnMessage and config.OnError as OnError, Connect, and
\* keep the client in sc.wsClient.  A failed Connect ends Start.
Start ==
    \E u \in Callers :
        /\ owner = "StreamClient"
        /\ wsClient = "nil"
        /\ ~ctxDone
        /\ ConnectCall(u, At("SendRequest", "Start"),
                       Returned("Start", ConnectErr))

\* Start's wsClient.SendRequest(config.Request) (line 66)
StartSendRequest ==
    \E u \in Callers :
        /\ caller[u].pc = "SendRequest"
        /\ caller[u].op = "Start"
        /\ SendRequestCall(u, "Start")

\* Stop, its first statement (line 125): sc.cancel()
Stop ==
    \E u \in Callers :
        /\ panicked = ""
        /\ owner = "StreamClient"
        /\ caller[u].pc = "idle"
        /\ ~ctxDone
        /\ ctxDone' = TRUE
        /\ Goto(u, At("Close", "Stop"))
        /\ UNCHANGED <<scanVars, conn, isConnected, done, rlocked, sockets,
                       readPumps, writePumps, calls, nframes, nSends, wire,
                       panicked, owner, buffer, bufferSize, bufferClosed,
                       wsClient, pm, dispatched>>

\* Stop's call of wsClient.Close() when there is a client (lines 126-128)
StopClose ==
    \E u \in Callers :
        /\ caller[u].pc = "Close"
        /\ caller[u].op = "Stop"
        /\ IF wsClient = "nil"
           THEN /\ panicked = ""
                /\ Goto(u, AfterClose("Stop", NilErr))
                /\ UNCHANGED <<scanVars, scVars, conn, isConnected, done,
                               rlocked, sockets, readPumps, writePumps, calls,
                               nframes, nSends, wire, panicked, owner>>
           ELSE CloseCall(u, "Stop")

\* Stop's last statement (line 129): close(sc.buffer), which panics on a
\* channel that is closed already
StopCloseBuffer ==
    \E u \in Callers :
        /\ panicked = ""
        /\ caller[u].pc = "closeBuffer"
        /\ IF bufferClosed
           THEN /\ panicked' = "close of closed channel"
                /\ Goto(u, At("panic", "Stop"))
                /\ UNCHANGED bufferClosed
           ELSE /\ bufferClosed' = TRUE
                /\ Goto(u, Returned("Stop", NilErr))
                /\ UNCHANGED panicked
        /\ UNCHANGED <<scanVars, conn, isConnected, done, rlocked, sockets,
                       readPumps, writePumps, calls, nframes, nSends, wire,
                       owner, buffer, bufferSize, ctxDone, wsClient, pm,
                       dispatched>>

\* processMessages received msg: the switch of lines 83-118
Received(msg) ==
    /\ dispatched' = Append(dispatched, msg)
    /\ calls' = Dispatch(msg)
    /\ pm' = AfterTag(msg.Type)
    /\ UNCHANGED panicked

\* One round of processMessages' loop (lines 78-120): return when the
\* context is cancelled, or receive from sc.buffer: a queued message, the
\* message of a readPump waiting in sc.buffer <- msg, or, from a closed
\* and empty buffer, nil, whose msg.Type is a nil dereference.  With both
\* cases ready either may run.
ProcessMessages ==
    /\ panicked = ""
    /\ pm = "select"
    /\ \/ /\ ctxDone
          /\ pm' = "exited"
          /\ UNCHANGED <<buffer, readPumps, calls, dispatched, panicked>>
       \/ /\ buffer # << >>
          /\ Received(Head(buffer))
          /\ buffer' = Tail(buffer)
          /\ UNCHANGED readPumps
       \/ /\ buffer = << >>
          /\ ~bufferClosed
          /\ \E i \in DOMAIN readPumps :
               /\ readPumps[i].pc = "onMessage"
               /\ Received(readPumps[i].msg)
               /\ readPumps' = [readPumps EXCEPT ![i] =
                    [readPumps[i] EXCEPT !.pc = "select", !.msg = NilMessage]]
          /\ UNCHANGED buffer
       \/ /\ buffer = << >>
          /\ bufferClosed
          /\ panicked' = "nil pointer dereference in processMessages"
          /\ UNCHANGED <<buffer, readPumps, calls, dispatched, pm>>
    /\ UNCHANGED <<scanVars, conn, isConnected, done, rlocked, sockets,
                   writePumps, caller, returned, nframes, nSends, wire, owner,
                   bufferSize, bufferClosed, ctxDone, wsClient>>

\* a StreamClient built with NewStreamClient; its WSClient is built by Start
StreamInit ==
    /\ ScannerIdle
    /\ NewWSClient("StreamClient")
    /\ \E size \in BufferSizes : NewStreamClient(size)

\* A StreamClient whose callers call Start and Stop, once each.
StreamNext ==
    \/ Start
    \/ StartSendRequest
    \/ SendRequestWrite
    \/ Stop
    \/ StopClose
    \/ CloseLocked
    \/ StopCloseBuffer
    \/ ReadPumpSelect
    \/ ReadPumpRead
    \/ ReadPumpOnMessage
    \/ ReadPumpDefer
    \/ WritePumpSelect
    \/ WritePumpPing
    \/ ProcessMessages

StreamSpec == StreamInit /\ [][StreamNext]_vars

\* ================================================================ claims
\* The running/last cycle built a batch: eventData, sent, ret and
\* cycleStart are that cycle's.
BatchBuilt == outcome \in {"exhausted", "paged"}

\* ... and the consumer has received it.
HandedOver == BatchBuilt /\ pc \in {"wait", "timer"}

LastDelivered == delivered[Len(delivered)]

\* C1: a cycle in which the reported chain head is below the cursor's
\* toBlock is a no-op (no fetch issued, no batch built or delivered, cursor
\* unchanged), and the cursor moves only in cycles whose head >= toBlock.
C1_HeadBehindIsNoOp ==
    /\ (latestBlockNumber # -1 /\ latestBlockNumber < cycleStart.ToBlock) =>
          /\ outcome = "skipped"
          /\ pc = "timer"
          /\ sent = NoCursor
          /\ eventData.nil
          /\ Len(delivered) = startDelivered
          /\ innerReq = cycleStart
    /\ (outcome # "none" /\ innerReq # cycleStart) =>
          /\ latestBlockNumber # -1
          /\ latestBlockNumber >= cycleStart.ToBlock

\* a later cycle skipped with the head one block short of toBlock
C1_Witness ==
    /\ outcome = "skipped"
    /\ latestBlockNumber = cycleStart.ToBlock - 1
    /\ Len(delivered) >= 1

\* C2: a successful cycle whose response holds exactly pageSize events with
\* page*size < total raises pageNumber by exactly 1 and keeps fromBlock and
\* toBlock; consecutive such cycles count the pages up one by one.
C2_FullPageTurnsPage ==
    (/\ BatchBuilt
     /\ ret.page.Count = sent.PageSize
     /\ ret.page.Page * ret.page.Size < ret.page.Total) =>
        /\ innerReq.PageNumber = cycleStart.PageNumber + 1
        /\ innerReq.FromBlock = cycleStart.FromBlock
        /\ innerReq.ToBlock = cycleStart.ToBlock
        /\ ~eventData.MetaData.ScanLatestBlockCompleted

\* the second full page in a row of one window
C2_Witness ==
    /\ BatchBuilt
    /\ ret.page.Count = sent.PageSize
    /\ ret.page.Page * ret.page.Size < ret.page.Total
    /\ cycleStart.PageNumber = 2
    /\ innerReq.PageNumber = 3
    /\ Len(delivered) >= 1
    /\ delivered[1].req.FromBlock = innerReq.FromBlock

\* C3: the cycle that exhausts the window leaves fromBlock' = old toBlock
\* + 1, toBlock' = fromBlock' + the configured span (BlockSize),
\* pageNumber' = 1.
C3_WindowShiftUsesSpan ==
    outcome = "exhausted" =>
        /\ innerReq.FromBlock = cycleStart.ToBlock + 1
        /\ innerReq.ToBlock = innerReq.FromBlock + c.BlockSize
        /\ innerReq.PageNumber = 1

\* C4 as stated: a delivered batch is marked completed exactly when the
\* returned count is below the cursor's pageSize or the cursor's
\* pageNumber * pageSize equals the reported total.
C4_CompletedByCursorPage ==
    HandedOver =>
        (LastDelivered.MetaData.ScanLatestBlockCompleted <=>
            \/ ret.page.Count < sent.PageSize
            \/ sent.PageNumber * sent.PageSize = ret.page.Total)

\* C4 amended: a delivered batch is marked completed exactly when the
\* returned count is below the cursor's pageSize or the page and size the
\* response reports multiply to its total; and from cursor {100, 110, 1}
\* with span 10 and pageSize 100, 50 events give completed = true and
\* cursor {111, 121, 1}.
C4_CompletedByReportedPage ==
    HandedOver =>
        /\ LastDelivered.MetaData.ScanLatestBlockCompleted <=>
              \/ ret.page.Count < sent.PageSize
              \/ ret.page.Page * ret.page.Size = ret.page.Total
        /\ (/\ cycleStart = Cursor(100, 110, 1, 100)
            /\ c.BlockSize = 10
            /\ ret.page.Count = 50) =>
              /\ LastDelivered.MetaData.ScanLatestBlockCompleted
              /\ innerReq = Cursor(111, 121, 1, 100)

\* the example of the claim, delivered
C4_Witness ==
    /\ HandedOver
    /\ cycleStart = Cursor(100, 110, 1, 100)
    /\ c.BlockSize = 10
    /\ ret.page.Count = 50
    /\ LastDelivered.req = cycleStart
    /\ LastDelivered.MetaData.ScanLatestBlockCompleted

\* C5: every delivered batch carries scanLatestBlockNumber equal to the
\* toBlock of the window that was fetched for it.
C5_MetaIsFetchedToBlock ==
    \A i \in DOMAIN delivered :
        delivered[i].MetaData.ScanLatestBlockNumber = delivered[i].req.ToBlock

\* a fetcher's retry loop is running
InFetcher == pc \in {"GetLatestBlockNumber", "GetEvents"}

\* C6 as stated: a fetcher call makes at most 3 attempts, and a call in
\* which a response carried a code outside the retry allow-list made
\* exactly 1 attempt and returned that error unchanged.
C6_TerminalMeansOneAttempt ==
    /\ attempt \in 0..2
    /\ ret.tries \in 0..3
    /\ terminalAt # 0 =>
          /\ ~InFetcher
          /\ ret.tries = 1
          /\ ret.err = Errorf("error getting events", ret.message)

\* C6 amended: a fetcher call makes at most 3 attempts; the attempt whose
\* response carries a code outside the retry allow-list is the call's last
\* (no attempt follows it, so the call makes exactly 1 attempt when that
\* response answers the first attempt), and the call returns that error
\* unchanged.
C6_TerminalEndsTheCall ==
    /\ attempt \in 0..2
    /\ ret.tries \in 0..3
    /\ terminalAt # 0 =>
          /\ ~InFetcher
          /\ ret.terminal
          /\ ret.tries = terminalAt
          /\ ret.err = Errorf("error getting events", ret.message)
    /\ (~InFetcher /\ ret.terminal) => terminalAt = ret.tries

\* GetEvents returned on a code not to be retried that answered its second
\* attempt
C6_Witness ==
    /\ ret.fn = "GetEvents"
    /\ ret.terminal
    /\ terminalAt = 2
    /\ ret.tries = 2

\* C7: a fetcher call never crashes: it ends by returning a decoded value
\* or an error, also on a success-coded response without data.
C7_FetcherNeverCrashes == outcome # "panic in GetLatestBlockNumber"

\* C8: a cycle whose head query or event fetch failed leaves the cursor as
\* it was and delivers nothing; the next cycle starts from that same
\* cursor, and the request a cycle issues is the cursor it started with.
C8_FailureKeepsCursor ==
    /\ [](outcome \in {"headFailed", "fetchFailed"} =>
            /\ innerReq = cycleStart
            /\ Len(delivered) = startDelivered
            /\ eventData.nil
            /\ pc = "timer")
    /\ [][(outcome \in {"headFailed", "fetchFailed"} /\ outcome' = "running")
            => cycleStart' = cycleStart]_vars
    /\ [](sent # NoCursor => sent = cycleStart)

\* the fetch of page 2 failed after all three attempts, page 1 delivered
C8_Witness ==
    /\ outcome = "fetchFailed"
    /\ ret.tries = 3
    /\ cycleStart.PageNumber = 2
    /\ Len(delivered) = 1
    /\ innerReq = cycleStart

\* C9: with a committedChannel, at most one delivered batch is
\* unacknowledged, and the scanner is held back exactly while one is: with
\* N acknowledgements received it has gone on from N deliveries, and
\* delivery N+2 never precedes acknowledgement N+1.
C9_OneUnacknowledged ==
    committedChannel # "nil" =>
        /\ Len(delivered) - nAcks \in {0, 1}
        /\ (pc = "wait") <=> (Len(delivered) = nAcks + 1)

\* two batches acknowledged, the third delivered and awaiting its commit
C9_Witness ==
    /\ committedChannel # "nil"
    /\ nAcks = 2
    /\ Len(delivered) = 3
    /\ pc = "wait"

\* C10: the batches delivered are fetched with pairwise different
\* (fromBlock, toBlock, pageNumber) triples and arrive in cursor order: after
\* a batch that does not complete its window comes the next page of the
\* same window, after one that completes it comes page 1 of the window that
\* starts one block above its toBlock; and the batch a cycle sends is the
\* one fetched with the cursor the cycle started with.
C10_ExactlyOnceInOrder ==
    /\ \A i, j \in DOMAIN delivered : i < j => delivered[i].req # delivered[j].req
    /\ \A i \in 1..(Len(delivered) - 1) :
          LET a == delivered[i]
              b == delivered[i + 1]
          IN IF a.MetaData.ScanLatestBlockCompleted
             THEN /\ b.req.FromBlock = a.req.ToBlock + 1
                  /\ b.req.ToBlock > a.req.ToBlock
                  /\ b.req.PageNumber = 1
             ELSE /\ b.req.FromBlock = a.req.FromBlock
                  /\ b.req.ToBlock = a.req.ToBlock
                  /\ b.req.PageNumber = a.req.PageNumber + 1
    /\ pc = "send" => sent = cycleStart
    /\ HandedOver => LastDelivered.req = cycleStart

\* pages 1 and 2 of the first window and page 1 of the second delivered,
\* with a cycle that delivered nothing in between
C10_Witness ==
    /\ Len(delivered) = 3
    /\ cycles = 4
    /\ delivered[1].req.PageNumber = 1
    /\ delivered[2].req.PageNumber = 2
    /\ delivered[2].req.FromBlock = delivered[1].req.FromBlock
    /\ delivered[3].req.PageNumber = 1
    /\ delivered[3].req.FromBlock = delivered[2].req.ToBlock + 1

\* C11: once cancellation is signalled the scanner starts no further fetch
\* cycle (the timer firing that follows the signal ends the loop instead).
C11_CancelStopsScanner == [][cancelled => cycles' = cycles]_vars

\* C19: in every reachable cursor state, for every Config value,
\* toBlock >= fromBlock and pageSize >= 1.
C19_CursorWellFormed ==
    /\ innerReq.ToBlock >= innerReq.FromBlock
    /\ innerReq.PageSize >= 1

\* ------------------------------------------------ the streaming connection
\* the loops of the client that have not returned
LiveReadPumps == {i \in DOMAIN readPumps : readPumps[i].pc # "exited"}
LiveWritePumps == {i \in DOMAIN writePumps : writePumps[i].pc # "exited"}
\* Close was called and has returned
CloseReturned == done = "closed" /\ \A u \in Callers : caller[u].op # "Close"
\* SendRequest's error for a client without connection
NotConnectedErr == Errorf("websocket not connected", "")

\* C12: a Connect on a client that is connected, or was closed, installs no
\* second connection and starts no second pair of loops: at most one
\* readPump, one writePump and one open connection exist at any time.
C12_AtMostOneLoopPair ==
    /\ Cardinality(LiveReadPumps) <= 1
    /\ Cardinality(LiveWritePumps) <= 1
    /\ Cardinality({k \in DOMAIN sockets : sockets[k] = "open"}) <= 1

\* C13: once Close has returned the client is not connected and its
\* connection is closed and released; and once Close was called (done is
\* closed) readPump and writePump both exit, wherever they were.
C13_CloseStopsBothLoops ==
    /\ [](CloseReturned =>
            /\ ~isConnected
            /\ conn = 0
            /\ \A k \in DOMAIN sockets : sockets[k] = "closed")
    /\ (done = "closed") ~> (LiveReadPumps = {} /\ LiveWritePumps = {})

\* Close on a connected client cut a blocked read short; both loops are gone
C13_Witness ==
    /\ CloseReturned
    /\ Len(readPumps) = 1
    /\ readPumps[1].err = Errorf("net", "use of closed network connection")
    /\ LiveReadPumps = {}
    /\ LiveWritePumps = {}

\* C14: no Close call crashes, the repeated one included, and after each
\* Close that returned the client is not connected.
C14_CloseNeverCrashes ==
    /\ \A u \in Callers : ~(caller[u].op = "Close" /\ caller[u].pc = "panic")
    /\ CloseReturned => (~isConnected /\ conn = 0)

\* C15: a SendRequest called while the client is not connected returns the
\* "not connected" error at once: nothing is written, no lock stays held,
\* nothing panics.
C15_NotConnectedIsAnError ==
    [][(nSends' # nSends /\ (~isConnected \/ conn = 0)) =>
          /\ returned' = [op |-> "SendRequest", ret |-> NotConnectedErr]
          /\ caller' = caller
          /\ wire' = wire
          /\ rlocked' = rlocked
          /\ panicked' = ""
          /\ UNCHANGED <<conn, isConnected, sockets>>]_vars

\* SendRequest refused after readPump tore the connection down, no Close
C15_Witness ==
    /\ returned = [op |-> "SendRequest", ret |-> NotConnectedErr]
    /\ \E i \in DOMAIN readPumps :
         readPumps[i].pc = "exited" /\ readPumps[i].err # NilErr
    /\ done = "open"

\* C16: a failed read of readPump leads to a client that is not connected,
\* with onClose called and writePump gone, Close called or not.
C16_ReadFailureStopsBoth ==
    (\E i \in DOMAIN readPumps : readPumps[i].err # NilErr) ~>
        (/\ ~isConnected
         /\ conn = 0
         /\ Invoked(Call("onClose", "readPump", NilErr)) >= 1
         /\ LiveWritePumps = {})

\* the server's close ended the read; everything is down and done is open
C16_Witness ==
    /\ Len(readPumps) = 1
    /\ readPumps[1].err \in ReadErrs
    /\ done = "open"
    /\ ~isConnected
    /\ Invoked(Call("onClose", "readPump", NilErr)) = 1
    /\ LiveReadPumps = {}
    /\ LiveWritePumps = {}

\* C20: a read that fails with an abnormal-closure close error is reported
\* to the error callback, one that fails with a normal closure is not.
C20_AbnormalSurfacedNormalNot ==
    \A i \in DOMAIN readPumps :
        LET e == readPumps[i].err IN
        /\ e = Errorf("close", "CloseAbnormalClosure") =>
              Invoked(Call("onError", "readPump", e)) >= 1
        /\ e = Errorf("close", "CloseNormalClosure") =>
              Invoked(Call("onError", "readPump", e)) = 0

\* -------------------------------------------------------- the dispatcher
\* the error callback invocation processMessages makes for the text m
ServerError(m) == Call("onError", "processMessages", Errorf("server error", m))
\* the dispatched messages tagged error that carry the text m
ErrorsDispatched(m) ==
    {k \in DOMAIN dispatched :
        dispatched[k].Type = "error" /\ dispatched[k].Message = m}
\* all the callback invocations processMessages made
DispatcherCalls ==
    {cl \in BagToSet(calls) : cl.by = "processMessages"}
\* processMessages received a message tagged end
Ended == \E k \in DOMAIN dispatched : dispatched[k].Type = "end"

\* C17: every message tagged error that processMessages receives makes
\* exactly one call of the error callback, with the message's text; the
\* step leaves the connection as it is and the dispatcher in its loop.
C17_ErrorMessageReportedOnce ==
    /\ [](\A m \in Messages :
            Invoked(ServerError(m)) = Cardinality(ErrorsDispatched(m)))
    /\ [][(/\ Len(dispatched') = Len(dispatched) + 1
            /\ dispatched'[Len(dispatched')].Type = "error") =>
              /\ BagCardinality(calls') = BagCardinality(calls) + 1
              /\ LET cl == ServerError(dispatched'[Len(dispatched')].Message) IN
                   CopiesIn(cl, calls') = CopiesIn(cl, calls) + 1
              /\ pm' = "select"
              /\ UNCHANGED <<conn, isConnected, sockets, done, bufferClosed,
                             ctxDone>>]_vars

\* an error message was reported and a later message was dispatched, on a
\* client still connected
C17_Witness ==
    /\ Len(dispatched) = 2
    /\ dispatched[1].Type = "error"
    /\ dispatched[2].Type = "events"
    /\ Invoked(ServerError(dispatched[1].Message)) = 1
    /\ Invoked(Call("OnEvents", "processMessages", NilErr)) = 1
    /\ isConnected

C26_NoDataIsExhaustedWindow ==
    [][(pc = "eventsReturned" /\ ret.err = NilErr /\ ret.page.nil) =>
          /\ pc' = "send"
          /\ eventData'.nil = FALSE
          /\ eventData'.Events = 0
          /\ eventData'.MetaData.ScanLatestBlockCompleted
          /\ innerReq' = NextWindow(innerReq, c)]_vars

\* the writes to a connection that are in progress: SendRequest's
\* WriteMessage (line 106) and writePump's ping (line 206), each with the
\* connection it writes to
WritesInProgress ==
    {<<"SendRequest", u, conn>> : u \in {v \in Callers :
                                            caller[v].pc = "WriteMessage"}}
    \cup {<<"writePump", i, writePumps[i].conn>> :
            i \in {j \in DOMAIN writePumps :
                     writePumps[j].pc = "WriteMessage"}}

\* C21: the use of the connection is serialized: at no moment are two
\* writes to the connection in progress, and no write is in progress on a
\* connection that was closed on this side.  (The inbound loop copies c.conn
\* in a lock section of its own, lines 153-155, which ends before
\* ReadMessage of line 161 starts: it holds no lock while it reads.)
C21_ConnectionUseSerialized ==
    /\ Cardinality(WritesInProgress) <= 1
    /\ \A w \in WritesInProgress : sockets[w[3]] = "open"

\* the tags processMessages has a case for (lines 84, 97, 110, 115)
KnownTags == {"events", "new_event", "error", "end"}

\* C23: a message with an unexpected tag that processMessages receives is
\* reported by one call of the error callback, and the step leaves the
\* connection as it is and the dispatcher in its loop.
C23_UnexpectedTagReported ==
    [][(/\ Len(dispatched') = Len(dispatched) + 1
        /\ dispatched'[Len(dispatched')].Type \notin KnownTags) =>
          /\ \E cl \in BagToSet(calls') :
                /\ cl.fn = "onError"
                /\ cl.by = "processMessages"
                /\ CopiesIn(cl, calls') = CopiesIn(cl, calls) + 1
          /\ pm' = "select"
          /\ UNCHANGED <<conn, isConnected, sockets, done, bufferClosed,
                         ctxDone>>]_vars

\* the error callback invocations for a frame that json.Unmarshal cannot
\* decode (readPump, line 175) and for a payload that does not decode into
\* the events of its tag (processMessages, lines 88 and 101)
FrameParseError == Call("onError", "readPump", Errorf("parse message failed", ""))
PayloadParseError(tag) ==
    Call("onError", "processMessages",
         Errorf(IF tag = "events" THEN "parse events failed"
                ELSE "parse new event failed", ""))
\* the dispatched messages tagged tag whose payload does not decode
BadPayloads(tag) ==
    {k \in DOMAIN dispatched :
        dispatched[k].Type = tag /\ ~dispatched[k].dataOk}
\* the decoded frames readPump is handing, or has handed, to the dispatcher
HandedOn ==
    Len(dispatched) + Len(buffer)
    + Cardinality({i \in DOMAIN readPumps : readPumps[i].pc = "onMessage"})

C24_StopNeverCrashes ==
    /\ panicked # "send on closed channel"
    /\ panicked # "nil pointer dereference in processMessages"

\* The goroutines of a StreamClient keep running: besides the steps of the
\* connection's loops, processMessages' select is executed when a case is
\* ready, and a caller inside Start or Stop goes on to its next statement.
\* The server and the callers' decisions to call stay free.
StreamFairSpec ==
    /\ StreamSpec
    /\ WF_vars(ReadPumpSelect)
    /\ WF_vars(ReadPumpReadClosed)
    /\ WF_vars(ReadPumpOnMessage)
    /\ WF_vars(ReadPumpDefer)
    /\ WF_vars(WritePumpSelect)
    /\ WF_vars(WritePumpPing)
    /\ WF_vars(CloseLocked)
    /\ WF_vars(SendRequestWrite)
    /\ WF_vars(StartSendRequest)
    /\ WF_vars(StopClose)
    /\ WF_vars(StopCloseBuffer)
    /\ WF_vars(ProcessMessages)

\* a readPump is inside the OnMessage closure, handing a frame to sc.buffer
HandingOver == \E i \in DOMAIN readPumps : readPumps[i].pc = "onMessage"

\* C25: once processMessages has returned, a readPump that hands a further
\* frame to sc.buffer gets out of the send while the process runs: it does
\* not stay in it for ever, unable to see a read failure or the closed done
\* channel.
C25_InboundLoopNotStuck ==
    (pm = "exited" /\ HandingOver) ~> (~HandingOver \/ panicked # "")

====
